---- MODULE Spec2Model ----
(***************************************************************************)
(* A model of the tool_dock / dcc_toolbox utilities:                       *)
(*   - get_func_arguments   (signature introspection)                      *)
(*   - LocalConstants       (the dynamic tool registry, scanned from disk) *)
(*   - DynamicClass.run / _InternalToolDockItemBase._run                   *)
(*   - save_tooldock_settings / load_tooldock_settings                     *)
(* Python strings that the code inspects character by character (paths,    *)
(* settings keys, the folder configuration) are sequences of one-character *)
(* strings.                                                                *)
(***************************************************************************)
EXTENDS Integers, Sequences, FiniteSets, TLC

VARIABLES
    \* ---- get_func_arguments
    func_args,            \* arg_spec.args of the inspected callable
    func_defaults,        \* arg_spec.defaults of the inspected callable
    parameter_dict,       \* the OrderedDict returned by get_func_arguments
    pc_args,              \* "ready" before the call, "done" after it
    \* ---- LocalConstants (lk) and the file system it scans
    env_script_folders,   \* os.environ: TOOL_DOCK_SCRIPT_FOLDERS, or Unset
    script_folders,       \* lk.script_folders
    dirs,                 \* the directories that exist on this machine
    files,                \* the files that exist
    dynamic_classes_generated,  \* lk.dynamic_classes_generated
    dynamic_classes,      \* lk.dynamic_classes: tool name -> DynamicClass
    last_call,            \* the last registry call and what it observed
    \* ---- ToolDockSettings stores
    settings,             \* the live store
    ini_files,            \* settings files on disk: path -> store
    target_settings,      \* the store load_tooldock_settings writes to
    last_op,              \* the last settings call and its arguments
    n_ops,                \* the number of settings calls made
    \* ---- one setting read with ToolDockSettings.get_value
    read_settings,        \* the store that is read
    read_default,         \* the default passed to get_value
    read_result,          \* what get_value returned
    pc_read,              \* "set", "reopened", then "read" or "read back"
    \* ---- the namespaces of DynamicClass.run
    toolbox_globals,      \* globals() of the toolbox module: name -> value
    script_globals,       \* the namespace the last script started with
    run_result,           \* the namespace runpy.run_path returned
    earlier_defined,      \* the names that scripts of earlier runs defined
    n_runs,               \* the number of runs made
    \* ---- a tool widget (ToolBoxItemBase / _InternalToolDockItemBase)
    PY_2,                 \* sys.version_info[0] < 3
    manual_parameters,    \* param_grid.parameters before post_init
    param_grid_parameters,  \* param_grid.parameters
    populated,            \* what auto_populate_parameters did
    _parameters_auto_generated,  \* self._parameters_auto_generated
    post_init_outcome     \* "none", "returned" or the exception raised

args_vars == <<func_args, func_defaults, parameter_dict, pc_args>>
registry_vars == <<env_script_folders, script_folders, dirs, files,
                   dynamic_classes_generated, dynamic_classes, last_call>>
settings_vars == <<settings, ini_files, target_settings, last_op, n_ops>>
read_vars == <<read_settings, read_default, read_result, pc_read>>
run_vars == <<toolbox_globals, script_globals, run_result, earlier_defined, n_runs>>
widget_vars == <<PY_2, manual_parameters, param_grid_parameters, populated,
                 _parameters_auto_generated, post_init_outcome>>
vars == <<args_vars, registry_vars, settings_vars, read_vars, run_vars, widget_vars>>

(***************************************************************************)
(* Python str operations                                                   *)
(***************************************************************************)
startswith(s, prefix) ==
    /\ Len(prefix) <= Len(s)
    /\ SubSeq(s, 1, Len(prefix)) = prefix

endswith(s, suffix) ==
    /\ Len(suffix) <= Len(s)
    /\ SubSeq(s, Len(s) - Len(suffix) + 1, Len(s)) = suffix

\* drop the first n characters
DropFirst(s, n) == SubSeq(s, n + 1, Len(s))

\* str.replace(old, new): every non-overlapping occurrence, left to right;
\* with an empty old, new is inserted before every character and at the end
RECURSIVE replace(_, _, _)
replace(s, old, new) ==
    IF old = <<>>
    THEN IF s = <<>> THEN new
         ELSE new \o <<Head(s)>> \o replace(Tail(s), old, new)
    ELSE IF Len(s) < Len(old) THEN s
    ELSE IF startswith(s, old)
         THEN new \o replace(DropFirst(s, Len(old)), old, new)
         ELSE <<Head(s)>> \o replace(Tail(s), old, new)

\* str.rfind(ch): the last index of ch in s, 0 when there is none
RECURSIVE rfind(_, _)
rfind(s, ch) ==
    IF s = <<>> THEN 0
    ELSE IF s[Len(s)] = ch THEN Len(s)
    ELSE rfind(SubSeq(s, 1, Len(s) - 1), ch)

\* str.split(sep) for a one-character sep: "" splits to [""]
RECURSIVE split(_, _)
split(s, sep) ==
    LET i == rfind(s, sep) IN
    IF i = 0 THEN <<s>>
    ELSE Append(split(SubSeq(s, 1, i - 1), sep), DropFirst(s, i))

(***************************************************************************)
(* get_func_arguments                                                      *)
(***************************************************************************)
MaxParams == 3

\* the class object used as the "no default" marker
NoneAsMarker == "None"
RequiresValueType == "RequiresValueType"

ParamNames == {"self", "a", "b", "c"}
\* the default values a signature declares: None, '', 0, 'x'
DefaultValues == {"None", "''", "0", "'x'"}

\* OrderedDict: a sequence of [k, v] entries in insertion order
od_keys(od) == [i \in 1..Len(od) |-> od[i].k]

od_has(od, key) == \E i \in 1..Len(od) : od[i].k = key

\* od[key] = value: an existing key keeps its position
od_set(od, key, value) ==
    IF od_has(od, key)
    THEN [i \in 1..Len(od) |-> IF od[i].k = key THEN [k |-> key, v |-> value] ELSE od[i]]
    ELSE Append(od, [k |-> key, v |-> value])

reversed(s) == [i \in 1..Len(s) |-> s[Len(s) - i + 1]]

Min(a, b) == IF a <= b THEN a ELSE b

\* zip(xs, ys): pairs up to the shorter of the two
zip(xs, ys) == [i \in 1..Min(Len(xs), Len(ys)) |-> <<xs[i], ys[i]>>]

\* for param_name in arg_spec.args: parameter_dict[param_name] = RequiresValueType
RECURSIVE mark_required(_, _)
mark_required(od, names) ==
    IF names = <<>> THEN od
    ELSE mark_required(od_set(od, Head(names), RequiresValueType), Tail(names))

\* for param_value, param_key in pairs: parameter_dict[param_key] = param_value
RECURSIVE fill_defaults(_, _)
fill_defaults(od, pairs) ==
    IF pairs = <<>> THEN od
    ELSE fill_defaults(od_set(od, Head(pairs)[2], Head(pairs)[1]), Tail(pairs))

\* the mutant pairs the defaults with the leading parameters
get_func_arguments_leading(args, defaults) ==
    LET marked == mark_required(<<>>, args) IN
    IF defaults # <<>>
    THEN fill_defaults(marked, zip(defaults, od_keys(marked)))
    ELSE marked

get_func_arguments(args, defaults) ==
    LET marked == mark_required(<<>>, args) IN
    IF defaults # <<>>
    THEN fill_defaults(marked, zip(reversed(defaults), reversed(od_keys(marked))))
    ELSE marked

\* sequences over S of length at most n
SeqsUpTo(S, n) == UNION {[1..k -> S] : k \in 0..n}

\* a def statement: distinct parameter names, defaults only for a trailing suffix
Signatures ==
    {sig \in SeqsUpTo(ParamNames, MaxParams) \X SeqsUpTo(DefaultValues, MaxParams) :
        /\ \A i, j \in 1..Len(sig[1]) : i # j => sig[1][i] # sig[1][j]
        /\ Len(sig[2]) <= Len(sig[1])}

ArgsInit ==
    /\ \E sig \in Signatures : func_args = sig[1] /\ func_defaults = sig[2]
    /\ parameter_dict = <<>>
    /\ pc_args = "ready"

CallGetFuncArguments ==
    /\ pc_args = "ready"
    /\ parameter_dict' = get_func_arguments(func_args, func_defaults)
    /\ pc_args' = "done"
    /\ UNCHANGED <<func_args, func_defaults>>

(***************************************************************************)
(* os.path                                                                 *)
(***************************************************************************)
\* os.path.join(folder, name)
path_join(folder, name) ==
    IF folder = <<>> \/ endswith(folder, <<"/">>)
    THEN folder \o name
    ELSE folder \o <<"/">> \o name

\* os.path.basename(path): what follows the last separator
basename(path) == DropFirst(path, rfind(path, "/"))

\* the dots of a name that lead it: they never start an extension
RECURSIVE leading_dots(_)
leading_dots(name) ==
    IF name # <<>> /\ Head(name) = "." THEN 1 + leading_dots(Tail(name)) ELSE 0

\* os.path.splitext(name) for a name without separator: <<root, ext>>; the
\* extension starts at the last dot, unless only dots come before that dot
splitext(name) ==
    LET dotIndex == rfind(name, ".") IN
    IF dotIndex > 0 /\ leading_dots(name) < dotIndex
    THEN <<SubSeq(name, 1, dotIndex - 1), DropFirst(name, dotIndex - 1)>>
    ELSE <<name, <<>>>>

(***************************************************************************)
(* The machine: folders, files and the environment                         *)
(***************************************************************************)
MaxFolders == 2
MaxFiles == 3

Unset == <<"unset">>

P == <<"p">>
PS == <<"p", "/", "s">>
Q == <<"q">>
Missing == <<"m">>

\* "D:/Google Drive/Scripting/_Scrsipts"
DefaultScriptFolders ==
    <<"D", ":", "/", "G", "o", "o", "g", "l", "e", " ", "D", "r", "i", "v", "e", "/",
      "S", "c", "r", "i", "p", "t", "i", "n", "g", "/",
      "_", "S", "c", "r", "s", "i", "p", "t", "s">>

PY == <<".", "p", "y">>

A_PY == <<"a", ".", "p", "y">>
B_PY == <<"b", ".", "p", "y">>
C_PY == <<"c", ".", "p", "y">>
N_TXT == <<"n", ".", "t", "x", "t">>

BaseDirs == {P, PS, Q}

PossibleFiles ==
    { [dir |-> P, name |-> A_PY], [dir |-> P, name |-> B_PY], [dir |-> P, name |-> N_TXT],
      [dir |-> PS, name |-> A_PY], [dir |-> PS, name |-> C_PY],
      [dir |-> Q, name |-> A_PY], [dir |-> Q, name |-> PY],
      [dir |-> DefaultScriptFolders, name |-> A_PY] }

\* the entries a user writes between the semicolons
FolderEntries == {<<>>, P, Q, Missing}

RECURSIVE join_semi(_)
join_semi(entries) ==
    IF entries = <<>> THEN <<>>
    ELSE IF Len(entries) = 1 THEN Head(entries)
    ELSE Head(entries) \o <<";">> \o join_semi(Tail(entries))

EnvValues == {join_semi(entries) : entries \in SeqsUpTo(FolderEntries, MaxFolders)}

\* os.environ.get(env_script_folders, "D:/Google Drive/Scripting/_Scrsipts")
environ_get_script_folders(env) ==
    IF env = Unset THEN DefaultScriptFolders ELSE env

file_path(f) == path_join(f.dir, f.name)

\* os.path.exists(path)
path_exists(path) ==
    \/ path \in dirs
    \/ \E f \in files : file_path(f) = path

\* the folders os.walk(root_folder) visits: the root and all below it
walked_dirs(root_folder) ==
    {d \in dirs : d = root_folder \/ startswith(d, path_join(root_folder, <<>>))}

\* a proper ancestor folder
is_above(d1, d2) == d1 # d2 /\ startswith(d2, d1 \o <<"/">>)

\* the mutant yields every file, whatever its name ends with
paths_in_folder_unfiltered(root_folder, extension_filter) ==
    {f \in files : f.dir \in walked_dirs(root_folder)}

\* get_paths_in_folder: the files it yields
paths_in_folder(root_folder, extension_filter) ==
    {f \in files : f.dir \in walked_dirs(root_folder) /\ endswith(f.name, extension_filter)}

\* the orders in which get_paths_in_folder can yield them: os.walk is
\* top-down, a folder's files come as one batch, the listing order is not fixed
walk_orders(root_folder, extension_filter) ==
    LET found == paths_in_folder(root_folder, extension_filter)
        n == Cardinality(found)
    IN {[i \in 1..n |-> file_path(order[i])] : order \in
          {o \in [1..n -> found] :
              /\ \A i, j \in 1..n : i # j => o[i] # o[j]
              /\ \A i, j \in 1..n : i < j => ~is_above(o[j].dir, o[i].dir)
              /\ \A i, j, k \in 1..n :
                    (i < k /\ k < j /\ o[i].dir = o[j].dir) => o[k].dir = o[i].dir}}

(***************************************************************************)
(* LocalConstants: the registry of dynamic tool classes                    *)
(***************************************************************************)
NoClasses == [n \in {} |-> 0]

\* the class make_class_from_script builds (run is DynamicClass_run below)
make_class_from_script(script_path, tool_name) ==
    [TOOL_NAME |-> tool_name, TOOL_TIP |-> script_path, SCRIPT_PATH |-> script_path]

script_name_of(script_path) == splitext(basename(script_path))[1]

\* the mutant stores the class even when the name is registered already
dynamic_class_from_script_overwrite(classes, script_path) ==
    LET script_name == script_name_of(script_path) IN
    [n \in DOMAIN classes \cup {script_name} |->
        IF n = script_name THEN make_class_from_script(script_path, script_name)
        ELSE classes[n]]

dynamic_class_from_script(classes, script_path) ==
    LET script_name == script_name_of(script_path) IN
    IF script_name \in DOMAIN classes
    THEN classes
    ELSE [n \in DOMAIN classes \cup {script_name} |->
            IF n = script_name THEN make_class_from_script(script_path, script_name)
            ELSE classes[n]]

\* dynamic_classes_from_script_folder, for one order of the walk
RECURSIVE classes_from_paths(_, _)
classes_from_paths(classes, script_paths) ==
    IF script_paths = <<>> THEN classes
    ELSE classes_from_paths(dynamic_class_from_script(classes, Head(script_paths)),
                            Tail(script_paths))

\* the registries dynamic_classes_from_script_folder can leave
dynamic_classes_from_script_folder(classes, script_folder) ==
    {classes_from_paths(classes, order) : order \in walk_orders(script_folder, PY)}

\* the mutant gives up at the first entry that is empty or does not exist
RECURSIVE scan_folders_stop_at_missing(_, _)
scan_folders_stop_at_missing(classes, folders) ==
    IF folders = <<>> THEN {classes}
    ELSE IF Head(folders) = <<>> \/ ~path_exists(Head(folders)) THEN {classes}
    ELSE UNION {scan_folders_stop_at_missing(c, Tail(folders)) :
                  c \in dynamic_classes_from_script_folder(classes, Head(folders))}

\* the loop of generate_dynamic_classes over script_folders.split(";")
RECURSIVE scan_folders(_, _)
scan_folders(classes, folders) ==
    IF folders = <<>> THEN {classes}
    ELSE IF Head(folders) = <<>> THEN scan_folders(classes, Tail(folders))
    ELSE IF ~path_exists(Head(folders)) THEN scan_folders(classes, Tail(folders))
    ELSE UNION {scan_folders(c, Tail(folders)) :
                  c \in dynamic_classes_from_script_folder(classes, Head(folders))}

\* generate_dynamic_classes: the outcomes [classes, generated] it can leave
generate_dynamic_classes(classes, generated) ==
    IF script_folders = <<>>
    THEN {[classes |-> classes, generated |-> generated]}
    ELSE {[classes |-> c, generated |-> TRUE] :
            c \in scan_folders(classes, split(script_folders, ";"))}

\* the mutant of get_tool_classes walks on every call
get_tool_classes_unguarded(classes, generated) ==
    generate_dynamic_classes(classes, generated)

\* get_tool_classes: the outcomes it can leave in lk
get_tool_classes(classes, generated) ==
    IF ~generated
    THEN generate_dynamic_classes(classes, generated)
    ELSE {[classes |-> classes, generated |-> generated]}

(***************************************************************************)
(* Running a tool                                                          *)
(***************************************************************************)
\* what the top-level code of a script can do when it is run
ScriptOutcomes ==
    { [kind |-> "returned", type |-> "dict", msg |-> ""],
      [kind |-> "raised", type |-> "ValueError", msg |-> "bad value"],
      [kind |-> "raised", type |-> "IOError", msg |-> "no such file"] }

NoOutcome == [kind |-> "none", type |-> "", msg |-> ""]

\* DynamicClass.run: return runpy.run_path(script_path, ...)
DynamicClass_run(script_outcome) == script_outcome

\* the mutant catches what the tool raises
_run_catching(run_outcome) ==
    [kind |-> "returned", type |-> "None", msg |-> ""]

\* _InternalToolDockItemBase._run without func: self.run(**kwargs); the
\* value run returns is dropped, what it raises is not caught
_run(run_outcome) ==
    IF run_outcome.kind = "raised"
    THEN run_outcome
    ELSE [kind |-> "returned", type |-> "None", msg |-> ""]

(***************************************************************************)
(* The registry as a state machine                                         *)
(***************************************************************************)
Call(op, tool, script_outcome, result) ==
    [op |-> op, generated_before |-> dynamic_classes_generated,
     classes_before |-> dynamic_classes,
     tool |-> tool, script_outcome |-> script_outcome, result |-> result]

RegistryInit ==
    /\ env_script_folders \in {Unset} \cup EnvValues
    /\ script_folders = environ_get_script_folders(env_script_folders)
    /\ dirs \in {BaseDirs, BaseDirs \cup {DefaultScriptFolders}}
    /\ files = {}
    /\ dynamic_classes_generated = FALSE
    /\ dynamic_classes = NoClasses
    /\ last_call = [op |-> "none", generated_before |-> FALSE, classes_before |-> NoClasses,
                    tool |-> <<>>, script_outcome |-> NoOutcome, result |-> NoOutcome]

\* a user drops a file into a folder
AddFile ==
    /\ Cardinality(files) < MaxFiles
    /\ \E f \in PossibleFiles \ files :
          /\ f.dir \in dirs
          /\ files' = files \cup {f}
    /\ last_call' = Call("add_file", <<>>, NoOutcome, NoOutcome)
    /\ UNCHANGED <<env_script_folders, script_folders, dirs,
                   dynamic_classes_generated, dynamic_classes>>

\* get_tool_classes()
GetToolClasses ==
    /\ \E out \in get_tool_classes(dynamic_classes, dynamic_classes_generated) :
          /\ dynamic_classes' = out.classes
          /\ dynamic_classes_generated' = out.generated
    /\ last_call' = Call("get_tool_classes", <<>>, NoOutcome, NoOutcome)
    /\ UNCHANGED <<env_script_folders, script_folders, dirs, files>>

\* lk.generate_dynamic_classes() called directly: the forced re-walk
GenerateDynamicClasses ==
    /\ \E out \in generate_dynamic_classes(dynamic_classes, dynamic_classes_generated) :
          /\ dynamic_classes' = out.classes
          /\ dynamic_classes_generated' = out.generated
    /\ last_call' = Call("generate_dynamic_classes", <<>>, NoOutcome, NoOutcome)
    /\ UNCHANGED <<env_script_folders, script_folders, dirs, files>>

\* the run button of a dynamic tool is clicked: _run()
RunTool ==
    /\ \E tool \in DOMAIN dynamic_classes, script_outcome \in ScriptOutcomes :
          last_call' = Call("run", tool, script_outcome,
                            _run(DynamicClass_run(script_outcome)))
    /\ UNCHANGED <<env_script_folders, script_folders, dirs, files,
                   dynamic_classes_generated, dynamic_classes>>

(***************************************************************************)
(* ToolDockSettings (QSettings): a store maps keys to values               *)
(***************************************************************************)
MaxKeys == 2
MaxOps == 3

\* Python None, for a path and for a value
PyNone == <<"None">>
NoneValue == [t |-> "None", s |-> <<>>]

\* a value is its Python type and the text QSettings writes for it
TrueValue == [t |-> "bool", s |-> <<"t", "r", "u", "e">>]
FalseValue == [t |-> "bool", s |-> <<"f", "a", "l", "s", "e">>]
str(chars) == [t |-> "str", s |-> chars]

TOOLDOCK == <<"t", "o", "o", "l", "d", "o", "c", "k">>

DockA == <<"A">>
DockB == <<"B">>
DockT == <<"t">>
Tooldocks == {DockA, DockB, DockT}

SettingKeys ==
    { <<"A", "/", "x">>, <<"A", "/", "A">>, <<"B", "/", "x">>, <<"t", "/", "x">> }
SettingValues == {TrueValue, str(<<"x">>)}

SettingsFile == <<"f">>

NoSettings == [k \in {} |-> 0]

\* the characters of the keys, in code point order
Alphabet == <<"/", "A", "B", "c", "d", "f", "k", "l", "o", "t", "x">>
ord(ch) == CHOOSE i \in 1..Len(Alphabet) : Alphabet[i] = ch

RECURSIVE str_less(_, _)
str_less(a, b) ==
    IF b = <<>> THEN FALSE
    ELSE IF a = <<>> THEN TRUE
    ELSE IF Head(a) # Head(b) THEN ord(Head(a)) < ord(Head(b))
    ELSE str_less(Tail(a), Tail(b))

\* QSettings.allKeys(): the keys, sorted
RECURSIVE sorted_keys(_)
sorted_keys(keys) ==
    IF keys = {} THEN <<>>
    ELSE LET first == CHOOSE k \in keys : \A other \in keys \ {k} : str_less(k, other)
         IN <<first>> \o sorted_keys(keys \ {first})

allKeys(store) == sorted_keys(DOMAIN store)

\* QSettings.setValue(key, value)
setValue(store, key, value) ==
    [k \in DOMAIN store \cup {key} |-> IF k = key THEN value ELSE store[k]]

\* QSettings.value(key, defaultValue=default)
value(store, key, default) ==
    IF key \in DOMAIN store THEN store[key] ELSE default

\* every spelling of true and the number one
is_true_representation_any_case(v) ==
    \/ v.s \in {<<"t", "r", "u", "e">>, <<"T", "r", "u", "e">>, <<"T", "R", "U", "E">>, <<"1">>}

\* settings_val in ("true", "True", "1", 1, True)
is_true_representation(v) ==
    \/ v.t = "str" /\ v.s \in {<<"t", "r", "u", "e">>, <<"T", "r", "u", "e">>, <<"1">>}
    \/ v.t = "int" /\ v.s = <<"1">>
    \/ v.t = "bool" /\ v.s = <<"t", "r", "u", "e">>

\* ToolDockSettings.get_value(key, default)
get_value(store, key, default) ==
    LET settings_val == value(store, key, default) IN
    IF default # NoneValue /\ default.t = "bool"
    THEN IF is_true_representation(settings_val) THEN TrueValue ELSE FalseValue
    ELSE settings_val

\* an IniFormat file keeps the text of every value
write_ini(store) == [k \in DOMAIN store |-> str(store[k].s)]

\* ToolDockSettings(path, IniFormat): the store read from the file, empty
\* when there is no such file
open_ini(path) == IF path \in DOMAIN ini_files THEN ini_files[path] ELSE NoSettings

\* the loop of save_tooldock_settings over settings.allKeys()
RECURSIVE export_keys(_, _, _, _)
export_keys(out_settings, live, current_tooldock, keys) ==
    IF keys = <<>> THEN out_settings
    ELSE IF ~startswith(Head(keys), current_tooldock)
         THEN export_keys(out_settings, live, current_tooldock, Tail(keys))
         ELSE export_keys(setValue(out_settings, Head(keys), get_value(live, Head(keys), NoneValue)),
                          live, current_tooldock, Tail(keys))

\* save_tooldock_settings: [result, path, wrote, written]; written is the
\* store left in the file at path when wrote is TRUE
save_tooldock_settings(live, current_tooldock, settings_path, browsed) ==
    LET path == IF settings_path = PyNone THEN browsed ELSE settings_path IN
    IF path = PyNone \/ path = <<>>
    THEN [result |-> PyNone, path |-> path, wrote |-> FALSE, written |-> NoSettings]
    ELSE LET out_settings == export_keys(open_ini(path), live, current_tooldock, allKeys(live))
         IN [result |-> path, path |-> path, wrote |-> TRUE,
             written |-> write_ini(setValue(out_settings, TOOLDOCK, str(current_tooldock)))]

\* key = setting_key.replace(settings_tooldock, target_tooldock)
import_key(setting_key, settings_tooldock, target_tooldock) ==
    replace(setting_key, settings_tooldock, target_tooldock)

\* the loop of load_tooldock_settings over source_settings.allKeys()
RECURSIVE import_keys(_, _, _, _, _)
import_keys(target, source, settings_tooldock, target_tooldock, keys) ==
    IF keys = <<>> THEN target
    ELSE IF ~startswith(Head(keys), settings_tooldock)
         THEN import_keys(target, source, settings_tooldock, target_tooldock, Tail(keys))
         ELSE import_keys(setValue(target,
                                   import_key(Head(keys), settings_tooldock, target_tooldock),
                                   get_value(source, Head(keys), NoneValue)),
                          source, settings_tooldock, target_tooldock, Tail(keys))

\* load_tooldock_settings with a path (or nothing) as source_settings:
\* [result, target]; startswith(None) raises on the first key of a file
\* that has keys and no marker
load_tooldock_settings(target, target_tooldock, source_settings, browsed) ==
    LET path == IF source_settings = PyNone THEN browsed ELSE source_settings IN
    IF path = PyNone \/ path = <<>>
    THEN [result |-> "None", path |-> path, target |-> target]
    ELSE LET source == open_ini(path)
             marker == get_value(source, TOOLDOCK, NoneValue)
         IN IF DOMAIN source = {} THEN [result |-> "True", path |-> path, target |-> target]
            ELSE IF marker = NoneValue
                 THEN [result |-> "TypeError", path |-> path, target |-> target]
                 ELSE [result |-> "True", path |-> path,
                       target |-> import_keys(target, source, marker.s, target_tooldock,
                                              allKeys(source))]

(***************************************************************************)
(* The settings as a state machine                                         *)
(***************************************************************************)
NoOp == [op |-> "none", tooldock |-> <<>>, path |-> PyNone, result |-> "None",
         live_before |-> NoSettings, target_before |-> NoSettings,
         exported_from |-> PyNone]

TargetInits ==
    { NoSettings,
      [k \in {<<"B", "/", "x">>} |-> str(<<"o", "l", "d">>)] }

\* the live stores the application can have built with setValue
LiveStores ==
    UNION {[keys -> SettingValues] :
             keys \in {ks \in SUBSET SettingKeys : Cardinality(ks) <= MaxKeys}}

SettingsInit ==
    /\ settings \in LiveStores
    /\ ini_files = [p \in {} |-> NoSettings]
    /\ target_settings \in TargetInits
    /\ last_op = NoOp
    /\ n_ops = 0

\* save_tooldock_settings(settings, current_tooldock, settings_path)
SaveTooldockSettings ==
    /\ n_ops < MaxOps
    /\ n_ops' = n_ops + 1
    /\ \E current_tooldock \in Tooldocks, settings_path \in {PyNone, SettingsFile},
          browsed \in {PyNone, SettingsFile} :
          LET out == save_tooldock_settings(settings, current_tooldock, settings_path, browsed)
          IN /\ ini_files' = IF ~out.wrote THEN ini_files
                             ELSE [p \in DOMAIN ini_files \cup {out.path} |->
                                     IF p = out.path THEN out.written ELSE ini_files[p]]
             /\ last_op' = [op |-> "save", tooldock |-> current_tooldock, path |-> out.path,
                            result |-> IF out.result = PyNone THEN "None" ELSE "path",
                            live_before |-> settings, target_before |-> target_settings,
                            exported_from |-> PyNone]
    /\ UNCHANGED <<settings, target_settings>>

\* load_tooldock_settings(target_settings, target_tooldock, source_settings)
LoadTooldockSettings ==
    /\ n_ops < MaxOps
    /\ n_ops' = n_ops + 1
    /\ \E target_tooldock \in Tooldocks \cup {<<>>}, source_settings \in {PyNone, SettingsFile},
          browsed \in {PyNone, SettingsFile} :
          LET out == load_tooldock_settings(target_settings, target_tooldock,
                                            source_settings, browsed)
          IN /\ target_settings' = out.target
             /\ last_op' = [op |-> "load", tooldock |-> target_tooldock, path |-> out.path,
                            result |-> out.result,
                            live_before |-> settings, target_before |-> target_settings,
                            exported_from |->
                                IF last_op.op = "save" /\ last_op.result = "path"
                                   /\ last_op.path = out.path
                                THEN last_op.tooldock ELSE PyNone]
    /\ UNCHANGED <<settings, ini_files>>

(***************************************************************************)
(* One setting, set in this session or read back from an IniFormat file    *)
(***************************************************************************)
int(chars) == [t |-> "int", s |-> chars]

ReadKey == <<"A", "/", "x">>

\* what the application can have passed to setValue
StoredValues ==
    { TrueValue, FalseValue, int(<<"1">>), int(<<"0">>),
      str(<<"t", "r", "u", "e">>), str(<<"T", "r", "u", "e">>), str(<<"1">>),
      str(<<"T", "R", "U", "E">>), str(<<"f", "a", "l", "s", "e">>), str(<<"0">>),
      str(<<"x">>), str(<<>>) }

ReadDefaults == {NoneValue, TrueValue, FalseValue}

ReadInit ==
    /\ read_settings \in {NoSettings} \cup {setValue(NoSettings, ReadKey, v) : v \in StoredValues}
    /\ read_default \in ReadDefaults
    /\ read_result = NoneValue
    /\ pc_read = "set"

\* the application restarts: the store is read back from its file
ReopenSettings ==
    /\ pc_read = "set"
    /\ read_settings' = write_ini(read_settings)
    /\ pc_read' = "reopened"
    /\ UNCHANGED <<read_default, read_result>>

\* settings.get_value(key, default)
GetValue ==
    /\ pc_read \in {"set", "reopened"}
    /\ read_result' = get_value(read_settings, ReadKey, read_default)
    /\ pc_read' = IF pc_read = "set" THEN "read" ELSE "read back"
    /\ UNCHANGED <<read_settings, read_default>>

(***************************************************************************)
(* DynamicClass.run: the namespaces of runpy.run_path                      *)
(***************************************************************************)
MaxRuns == 3

\* the names the toolbox module binds at its top level
ToolboxNames ==
    { "collections", "importlib", "inspect", "os", "runpy", "sys", "partial",
      "parameter_grid", "ui_utils", "QtCore", "QtWidgets",
      "PY_2", "background_form", "RequiresValueType", "LocalConstants", "lk",
      "_InternalToolDockItemBase", "ToolDockItemBase", "ToolDockSettings",
      "import_extra_modules", "get_func_arguments", "all_subclasses",
      "get_tool_classes", "get_preview_from_script", "make_class_from_script",
      "get_paths_in_folder", "browse_for_settings_path",
      "save_tooldock_settings", "load_tooldock_settings" }

\* globals() of the toolbox module once it is imported
ToolboxGlobals ==
    [n \in ToolboxNames \cup {"__name__"} |->
        IF n = "__name__" THEN "tool_dock.tool_dock_utils" ELSE "toolbox object"]

\* the names a script can bind at its top level; lk rebinds a toolbox name
ScriptNames == {"x", "y", "lk"}

NoNamespace == [n \in {} |-> ""]

\* the namespace runpy.run_path gives the code: a new dict, updated with
\* init_globals, then __name__ set to run_name
run_path_namespace(init_globals, run_name) ==
    [n \in DOMAIN init_globals \cup {"__name__"} |->
        IF n = "__name__" THEN run_name ELSE init_globals[n]]

\* the top-level code of the script binds its names in that namespace
exec_script(namespace, defined) ==
    [n \in DOMAIN namespace \cup defined |->
        IF n \in defined THEN "script object" ELSE namespace[n]]

RunInit ==
    /\ toolbox_globals = ToolboxGlobals
    /\ script_globals = NoNamespace
    /\ run_result = NoNamespace
    /\ earlier_defined = {}
    /\ n_runs = 0

\* DynamicClass.run():
\* runpy.run_path(script_path, init_globals=globals(), run_name="__main__")
DynamicClassRun ==
    /\ n_runs < MaxRuns
    /\ n_runs' = n_runs + 1
    /\ \E defined \in SUBSET ScriptNames :
          LET namespace == run_path_namespace(toolbox_globals, "__main__") IN
          /\ script_globals' = namespace
          /\ run_result' = exec_script(namespace, defined)
    /\ earlier_defined' = earlier_defined \cup (DOMAIN run_result \ DOMAIN script_globals)
                                          \cup {n \in DOMAIN script_globals :
                                                  run_result[n] # script_globals[n]}
    /\ UNCHANGED toolbox_globals

(***************************************************************************)
(* The tool widget: auto_populate_parameters and post_init                 *)
(***************************************************************************)
\* run_arguments.pop(key)
od_pop(od, key) == SelectSeq(od, LAMBDA e : e.k # key)

\* str()
EmptyStr == "''"

\* one pass of the loop body that is not the 'self' branch
fill_required(run_arguments, item) ==
    IF item.v = RequiresValueType
    THEN od_set(run_arguments, item.k, EmptyStr)
    ELSE run_arguments

\* for param_name, default_value in run_arguments.items(), Python 2:
\* items() is a list built before the loop starts
RECURSIVE populate_items_list(_, _)
populate_items_list(run_arguments, items) ==
    IF items = <<>> THEN [raised |-> "", data |-> run_arguments]
    ELSE IF Head(items).k = "self"
         THEN populate_items_list(od_pop(run_arguments, "self"), Tail(items))
         ELSE populate_items_list(fill_required(run_arguments, Head(items)), Tail(items))

\* the same loop, Python 3: items() is a view of the OrderedDict, and the
\* step after a pop raises RuntimeError unless the popped key was the last
RECURSIVE populate_items_view(_, _)
populate_items_view(run_arguments, items) ==
    IF items = <<>> THEN [raised |-> "", data |-> run_arguments]
    ELSE IF Head(items).k = "self"
         THEN IF Tail(items) = <<>>
              THEN [raised |-> "", data |-> od_pop(run_arguments, "self")]
              ELSE [raised |-> "RuntimeError", data |-> od_pop(run_arguments, "self")]
         ELSE populate_items_view(fill_required(run_arguments, Head(items)), Tail(items))

NotPopulated ==
    [called |-> FALSE, raised |-> "", from_data_called |-> FALSE, data |-> <<>>,
     auto_generated |-> FALSE]

\* auto_populate_parameters() for a run method with this signature
auto_populate_parameters(args, defaults, py2) ==
    LET run_arguments == get_func_arguments(args, defaults) IN
    IF run_arguments = <<>>
    THEN [NotPopulated EXCEPT !.called = TRUE]
    ELSE LET loop == IF py2 THEN populate_items_list(run_arguments, run_arguments)
                     ELSE populate_items_view(run_arguments, run_arguments)
         IN IF loop.raised # ""
            THEN [NotPopulated EXCEPT !.called = TRUE, !.raised = loop.raised]
            ELSE IF loop.data # <<>>
                 THEN [called |-> TRUE, raised |-> "", from_data_called |-> TRUE,
                       data |-> loop.data, auto_generated |-> TRUE]
                 ELSE [NotPopulated EXCEPT !.called = TRUE]

\* ParameterGrid.from_data(data): the grid holds one parameter per entry
from_data(data) == data

\* parameters a tool has defined by hand before post_init
ManualParameters == <<[k |-> "m", v |-> EmptyStr]>>

\* post_init(): [populated, parameters, outcome]
post_init(parameters, args, defaults, py2) ==
    LET pop == IF parameters = <<>> THEN auto_populate_parameters(args, defaults, py2)
               ELSE NotPopulated
        after == IF pop.from_data_called THEN from_data(pop.data) ELSE parameters
    IN [populated |-> pop, parameters |-> after,
        outcome |-> IF pop.raised # "" THEN pop.raised
                    ELSE IF after # <<>> /\ ~py2 THEN "AttributeError"
                    ELSE "returned"]

WidgetInit ==
    /\ PY_2 \in BOOLEAN
    /\ manual_parameters \in {<<>>, ManualParameters}
    /\ param_grid_parameters = manual_parameters
    /\ populated = NotPopulated
    /\ _parameters_auto_generated = FALSE
    /\ post_init_outcome = "none"

\* the widget is built and post_init() runs
PostInit ==
    /\ post_init_outcome = "none"
    /\ LET out == post_init(param_grid_parameters, func_args, func_defaults, PY_2) IN
          /\ populated' = out.populated
          /\ param_grid_parameters' = out.parameters
          /\ _parameters_auto_generated' =
                (_parameters_auto_generated \/ out.populated.auto_generated)
          /\ post_init_outcome' = out.outcome
    /\ UNCHANGED <<PY_2, manual_parameters>>

(***************************************************************************)
(* Specifications                                                          *)
(***************************************************************************)
\* the parts a specification leaves at rest
ArgsIdle ==
    /\ func_args = <<>>
    /\ func_defaults = <<>>
    /\ parameter_dict = <<>>
    /\ pc_args = "ready"

RegistryIdle ==
    /\ env_script_folders = <<>>
    /\ script_folders = environ_get_script_folders(env_script_folders)
    /\ dirs = BaseDirs
    /\ files = {}
    /\ dynamic_classes_generated = FALSE
    /\ dynamic_classes = NoClasses
    /\ last_call = [op |-> "none", generated_before |-> FALSE, classes_before |-> NoClasses,
                    tool |-> <<>>, script_outcome |-> NoOutcome, result |-> NoOutcome]

SettingsIdle ==
    /\ settings = NoSettings
    /\ ini_files = [p \in {} |-> NoSettings]
    /\ target_settings = NoSettings
    /\ last_op = NoOp
    /\ n_ops = 0

ReadIdle ==
    /\ read_settings = NoSettings
    /\ read_default = NoneValue
    /\ read_result = NoneValue
    /\ pc_read = "set"

RunIdle == RunInit

WidgetIdle ==
    /\ PY_2 = TRUE
    /\ manual_parameters = <<>>
    /\ param_grid_parameters = <<>>
    /\ populated = NotPopulated
    /\ _parameters_auto_generated = FALSE
    /\ post_init_outcome = "none"

\* get_func_arguments applied to every signature within the bounds
InitArgs == ArgsInit /\ RegistryIdle /\ SettingsIdle /\ ReadIdle /\ RunIdle /\ WidgetIdle
NextArgs == CallGetFuncArguments /\ UNCHANGED <<registry_vars, settings_vars, read_vars, run_vars, widget_vars>>
SpecArgs == InitArgs /\ [][NextArgs]_vars

\* the registry: files appear, the registry is queried and re-walked, tools run
InitRegistry == ArgsIdle /\ RegistryInit /\ SettingsIdle /\ ReadIdle /\ RunIdle /\ WidgetIdle
NextRegistry ==
    \/ AddFile /\ UNCHANGED <<args_vars, settings_vars, read_vars, run_vars, widget_vars>>
    \/ GetToolClasses /\ UNCHANGED <<args_vars, settings_vars, read_vars, run_vars, widget_vars>>
    \/ GenerateDynamicClasses /\ UNCHANGED <<args_vars, settings_vars, read_vars, run_vars, widget_vars>>
    \/ RunTool /\ UNCHANGED <<args_vars, settings_vars, read_vars, run_vars, widget_vars>>
SpecRegistry == InitRegistry /\ [][NextRegistry]_vars

\* the settings: a live store is exported to a file and imported from it
InitSettings == ArgsIdle /\ RegistryIdle /\ SettingsInit /\ ReadIdle /\ RunIdle /\ WidgetIdle
NextSettings ==
    \/ SaveTooldockSettings /\ UNCHANGED <<args_vars, registry_vars, read_vars, run_vars, widget_vars>>
    \/ LoadTooldockSettings /\ UNCHANGED <<args_vars, registry_vars, read_vars, run_vars, widget_vars>>
SpecSettings == InitSettings /\ [][NextSettings]_vars

\* one setting: set, perhaps read back from its file, then read
InitRead == ArgsIdle /\ RegistryIdle /\ SettingsIdle /\ ReadInit /\ RunIdle /\ WidgetIdle
NextRead ==
    \/ ReopenSettings /\ UNCHANGED <<args_vars, registry_vars, settings_vars, run_vars, widget_vars>>
    \/ GetValue /\ UNCHANGED <<args_vars, registry_vars, settings_vars, run_vars, widget_vars>>
SpecRead == InitRead /\ [][NextRead]_vars

\* the scripts of dynamic tools are run, one after the other
InitRun == ArgsIdle /\ RegistryIdle /\ SettingsIdle /\ ReadIdle /\ RunInit /\ WidgetIdle
NextRun == DynamicClassRun /\ UNCHANGED <<args_vars, registry_vars, settings_vars, read_vars, widget_vars>>
SpecRun == InitRun /\ [][NextRun]_vars

\* a tool widget with any run signature is built, under either Python
InitWidget == ArgsInit /\ RegistryIdle /\ SettingsIdle /\ ReadIdle /\ RunIdle /\ WidgetInit
NextWidget ==
    PostInit /\ UNCHANGED <<args_vars, registry_vars, settings_vars, read_vars, run_vars>>
SpecWidget == InitWidget /\ [][NextWidget]_vars

(***************************************************************************)
(* Properties of get_func_arguments (checked under SpecArgs)               *)
(***************************************************************************)
NumParams == Len(func_args)
NumDefaults == Len(func_defaults)

\* C1: for a callable with N parameters and K trailing defaults,
\* get_func_arguments returns exactly N entries in declaration order, the
\* first N-K holding RequiresValueType and the last K holding the K defaults
\* in their original order.
C1_DeclarationOrderTrailingDefaults ==
    pc_args = "done" =>
        /\ Len(parameter_dict) = NumParams
        /\ \A i \in 1..NumParams : parameter_dict[i].k = func_args[i]
        /\ \A i \in 1..(NumParams - NumDefaults) : parameter_dict[i].v = RequiresValueType
        /\ \A j \in 1..NumDefaults :
              parameter_dict[NumParams - NumDefaults + j].v = func_defaults[j]

\* three parameters, the last two with different defaults, introspected
C1_Witness ==
    /\ pc_args = "done"
    /\ NumParams = 3
    /\ NumDefaults = 2
    /\ func_defaults[1] # func_defaults[2]

\* C2: a parameter whose declared default is None or empty is stored with
\* that default, never with the required marker; the marker is a sentinel
\* no default equals, stored exactly for the parameters without default.
C2_RequiredMarkerIsDistinctSentinel ==
    /\ RequiresValueType \notin DefaultValues
    /\ pc_args = "done" =>
          \A i \in 1..Len(parameter_dict) :
              IF i > NumParams - NumDefaults
              THEN /\ parameter_dict[i].v # RequiresValueType
                   /\ func_defaults[i - (NumParams - NumDefaults)] \in {"None", "''"}
                         => parameter_dict[i].v = func_defaults[i - (NumParams - NumDefaults)]
              ELSE parameter_dict[i].v = RequiresValueType

\* def f(a, b=None): a is required, b is stored as None
C2_Witness ==
    /\ pc_args = "done"
    /\ NumParams = 2
    /\ func_defaults = <<"None">>
    /\ parameter_dict[1].v = RequiresValueType
    /\ parameter_dict[2].v = "None"

(***************************************************************************)
(* Properties of the registry (checked under SpecRegistry)                 *)
(***************************************************************************)
FolderList == split(script_folders, ";")

\* the configured folders that exist
ExistingRoots ==
    {FolderList[i] : i \in 1..Len(FolderList)} \cap dirs

\* the files below root, at any depth, whose name ends with ".py"
ScriptsUnder(root) ==
    {f \in files : endswith(f.name, PY) /\ (f.dir = root \/ is_above(root, f.dir))}

DiscoverableScripts == UNION {ScriptsUnder(root) : root \in ExistingRoots}

\* the last call walked the configured folders
Walked ==
    /\ script_folders # <<>>
    /\ \/ last_call.op = "generate_dynamic_classes"
       \/ last_call.op = "get_tool_classes" /\ ~last_call.generated_before

\* a file name without its last three characters
WithoutPy(name) == SubSeq(name, 1, Len(name) - Len(PY))

OnlyDots(s) == \A i \in 1..Len(s) : s[i] = "."

\* the base name, extension stripped, of a file name that ends with ".py":
\* a name of nothing but dots before "py" has no extension
ExpectedToolName(name) ==
    IF OnlyDots(WithoutPy(name)) THEN name ELSE WithoutPy(name)

\* C3 as stated: a scan registers exactly one descriptor for each file
\* whose name ends with ".py", named by the base name without its
\* extension, and nothing for the other files.
C3_OneDescriptorPerMatchingFile ==
    Walked =>
        /\ Cardinality(DOMAIN dynamic_classes) = Cardinality(DiscoverableScripts)
        /\ DOMAIN dynamic_classes = {ExpectedToolName(f.name) : f \in DiscoverableScripts}

\* C3 amended: a scan registers exactly one descriptor for each distinct
\* base name (extension stripped) among the files whose name ends with
\* ".py", its script being one of the files of that name, and nothing for
\* the other files.
C3_OneDescriptorPerToolName ==
    Walked =>
        /\ DOMAIN dynamic_classes = {ExpectedToolName(f.name) : f \in DiscoverableScripts}
        /\ \A n \in DOMAIN dynamic_classes :
              /\ dynamic_classes[n].TOOL_NAME = n
              /\ \E f \in DiscoverableScripts :
                    /\ ExpectedToolName(f.name) = n
                    /\ dynamic_classes[n].SCRIPT_PATH = file_path(f)

\* p holds a.py, b.py and n.txt and has been scanned
C3_Witness ==
    /\ Walked
    /\ P \in ExistingRoots
    /\ files = {[dir |-> P, name |-> A_PY], [dir |-> P, name |-> B_PY],
                [dir |-> P, name |-> N_TXT]}
    /\ DOMAIN dynamic_classes = {<<"a">>, <<"b">>}

C5_FirstDiscoveryWins ==
    /\ \A n \in DOMAIN last_call.classes_before :
          /\ n \in DOMAIN dynamic_classes
          /\ dynamic_classes[n] = last_call.classes_before[n]
    /\ \A n1, n2 \in DOMAIN dynamic_classes :
          /\ dynamic_classes[n1].TOOL_NAME = n1
          /\ n1 # n2 => dynamic_classes[n1].SCRIPT_PATH # dynamic_classes[n2].SCRIPT_PATH

\* a re-walk met a second file of a registered name and skipped it
C5_Witness ==
    /\ last_call.op = "generate_dynamic_classes"
    /\ \E f \in DiscoverableScripts :
          /\ ExpectedToolName(f.name) \in DOMAIN last_call.classes_before
          /\ dynamic_classes[ExpectedToolName(f.name)].SCRIPT_PATH # file_path(f)

\* C6: an entry of the folder list that is empty or names no existing
\* folder is skipped, and the scripts of every existing folder of the list
\* are registered all the same.
C6_MissingFoldersSkipped ==
    Walked =>
        /\ dynamic_classes_generated
        /\ \A i \in 1..Len(FolderList) :
              (FolderList[i] # <<>> /\ path_exists(FolderList[i])) =>
                  \A f \in ScriptsUnder(FolderList[i]) :
                      script_name_of(file_path(f)) \in DOMAIN dynamic_classes

\* a missing or empty entry comes before a folder whose script got registered
C6_Witness ==
    /\ Walked
    /\ \E i, j \in 1..Len(FolderList) :
          /\ i < j
          /\ FolderList[i] = <<>> \/ FolderList[i] = Missing
          /\ FolderList[j] \in dirs
          /\ \E f \in ScriptsUnder(FolderList[j]) :
                script_name_of(file_path(f)) \in DOMAIN dynamic_classes

\* C7 as stated: with TOOL_DOCK_SCRIPT_FOLDERS missing from the environment
\* the folder list is empty and the registry stays empty.
C7_MissingEnvDisablesDiscovery ==
    env_script_folders = Unset =>
        /\ script_folders = <<>>
        /\ DOMAIN dynamic_classes = {}

\* C8: when the script of a tool raises, _run lets exactly that exception
\* (type and message) out to its caller, and the registry is as before.
C8_ScriptErrorPropagates ==
    (last_call.op = "run" /\ last_call.script_outcome.kind = "raised") =>
        /\ last_call.result.kind = "raised"
        /\ last_call.result.type = last_call.script_outcome.type
        /\ last_call.result.msg = last_call.script_outcome.msg
        /\ dynamic_classes = last_call.classes_before
        /\ dynamic_classes_generated = last_call.generated_before

\* a registered tool was run and its script raised ValueError("bad value")
C8_Witness ==
    /\ last_call.op = "run"
    /\ last_call.tool \in DOMAIN dynamic_classes
    /\ last_call.script_outcome = [kind |-> "raised", type |-> "ValueError", msg |-> "bad value"]
    /\ last_call.result.kind = "raised"

(***************************************************************************)
(* Properties of the settings export and import (checked under             *)
(* SpecSettings)                                                           *)
(***************************************************************************)
\* C9 as stated: after exporting namespace A and importing that file into
\* namespace B, every live key A+rest is in the target store as B+rest with
\* the same value (as text).
C9_ImportRewritesLeadingPrefixOnly ==
    (last_op.op = "load" /\ last_op.result = "True" /\ last_op.exported_from # PyNone) =>
        \A k \in DOMAIN settings :
            startswith(k, last_op.exported_from) =>
                LET key == last_op.tooldock \o DropFirst(k, Len(last_op.exported_from)) IN
                /\ key \in DOMAIN target_settings
                /\ target_settings[key].s = settings[k].s

\* C10 as stated: after a save the file holds exactly the live keys that
\* start with current_tooldock, each with its live value (as text), and the
\* marker key "tooldock" with current_tooldock; the live store is as before.
C10_ExportHoldsExactlyTheNamespace ==
    (last_op.op = "save" /\ last_op.result = "path") =>
        LET exported == ini_files[last_op.path]
            own == {k \in DOMAIN settings : startswith(k, last_op.tooldock)}
        IN /\ DOMAIN exported = own \cup {TOOLDOCK}
           /\ \A k \in own : exported[k].s = settings[k].s
           /\ exported[TOOLDOCK].s = last_op.tooldock
           /\ settings = last_op.live_before

(***************************************************************************)
(* Properties of ToolDockSettings.get_value (checked under SpecRead)       *)
(***************************************************************************)
ReadDone == pc_read \in {"read", "read back"}
BoolRead == ReadDone /\ read_default.t = "bool" /\ ReadKey \in DOMAIN read_settings
Stored == read_settings[ReadKey]
TrueStrings == {str(<<"t", "r", "u", "e">>), str(<<"1">>), str(<<"T", "r", "u", "e">>)}

NoPathChosen == last_op.path = PyNone
NoSuchFile == last_op.path # PyNone /\ last_op.path \notin DOMAIN ini_files
StoresUntouched ==
    /\ settings = last_op.live_before
    /\ target_settings = last_op.target_before

\* C12: save_tooldock_settings with no target path chosen, and
\* load_tooldock_settings with no source chosen or with a source file that
\* does not exist, do not raise, return a falsy result (None) and leave
\* the live store and the target store as they were.
C12_SettingsFileErrorIsNoOp ==
    /\ last_op.op = "save" /\ NoPathChosen =>
          last_op.result = "None" /\ StoresUntouched
    /\ last_op.op = "load" /\ (NoPathChosen \/ NoSuchFile) =>
          last_op.result = "None" /\ StoresUntouched

(***************************************************************************)
(* The namespace of a run (checked under SpecRun)                          *)
(***************************************************************************)
\* C13: the script of a run starts with a namespace that holds none of the
\* names of the toolbox module and none of the names an earlier run
\* defined, its __name__ is "__main__", and no run changes the namespace of
\* the toolbox module.
C13_ScriptRunsInFreshNamespace ==
    n_runs > 0 =>
        /\ DOMAIN script_globals \cap ToolboxNames = {}
        /\ \A n \in earlier_defined :
              n \in DOMAIN script_globals => script_globals[n] # "script object"
        /\ script_globals["__name__"] = "__main__"
        /\ toolbox_globals = ToolboxGlobals

(***************************************************************************)
(* auto_populate_parameters and post_init (checked under SpecWidget)       *)
(***************************************************************************)
NoSelf == SelectSeq(func_args, LAMBDA n : n # "self")
IndexOf(n) == CHOOSE i \in 1..Len(func_args) : func_args[i] = n
DeclaredValue(n) ==
    IF IndexOf(n) > NumParams - NumDefaults
    THEN func_defaults[IndexOf(n) - (NumParams - NumDefaults)]
    ELSE EmptyStr
ExpectedData == [i \in 1..Len(NoSelf) |-> [k |-> NoSelf[i], v |-> DeclaredValue(NoSelf[i])]]

\* C14: for a run method with any list of parameters, auto_populate_parameters
\* completes without error; the mapping it passes to the parameter grid has
\* no 'self' entry, keeps the other parameters in declaration order, holds
\* the empty string for a parameter without default and the declared
\* default for the others; _parameters_auto_generated is set only when that
\* mapping is not empty; post_init calls it only when no parameters were
\* defined manually.
C14_AutoPopulateBuildsGridMapping ==
    post_init_outcome # "none" =>
        /\ populated.called <=> manual_parameters = <<>>
        /\ populated.called =>
              /\ populated.raised = ""
              /\ populated.from_data_called <=> ExpectedData # <<>>
              /\ populated.from_data_called => populated.data = ExpectedData
              /\ _parameters_auto_generated <=> ExpectedData # <<>>

(***************************************************************************)
(* The scanned-once flag (checked under SpecRegistry)                      *)
(***************************************************************************)
\* C15: after any call of get_tool_classes, whatever the folder
\* configuration is (the empty one included), dynamic_classes_generated is
\* true, so a call of get_tool_classes that follows another one does not
\* invoke generate_dynamic_classes again.
C15_GeneratedAfterGetToolClasses ==
    last_call.op = "get_tool_classes" => dynamic_classes_generated

(***************************************************************************)
(* What an import writes (checked under SpecSettings)                      *)
(***************************************************************************)
Imported == last_op.op = "load" /\ last_op.result = "True" /\ last_op.path \in DOMAIN ini_files
SourceFile == ini_files[last_op.path]
SourceNamespace == SourceFile[TOOLDOCK].s
ChangedKeys ==
    {k \in DOMAIN target_settings :
        k \notin DOMAIN last_op.target_before \/ target_settings[k] # last_op.target_before[k]}
\* the source keys an import may copy: in the source namespace, not the marker
ImportableKeys ==
    {k \in DOMAIN SourceFile \ {TOOLDOCK} : startswith(k, SourceNamespace)}

\* C16: load_tooldock_settings changes the target store only at keys that
\* start with the target namespace; every other key of the target store
\* keeps its value; a source key that does not start with the recorded
\* source namespace is not imported, and the 'tooldock' marker key of the
\* source file is never written into the target store, whatever the two
\* namespaces are.
C16_ImportStaysInTargetNamespace ==
    Imported =>
        /\ \A k \in DOMAIN last_op.target_before : k \in DOMAIN target_settings
        /\ \A k \in ChangedKeys : startswith(k, last_op.tooldock)
        /\ ChangedKeys \subseteq
              {import_key(k, SourceNamespace, last_op.tooldock) : k \in ImportableKeys}
====
